---- MODULE Spec2Model ----
(***************************************************************************)
(* A model of fdice (src/src/fdice.js, src/src/random.js): the compiler of *)
(* dice expressions ("parse"), the evaluators it returns, the exported     *)
(* pool modifiers (reroll, twice, keep/drop, explode), and the splitter    *)
(* of expressions into chunks.                                             *)
(*                                                                         *)
(* A string is a sequence of one-character strings: "2d6" is               *)
(* <<"2","d","6">>.  A JavaScript value that is either a number or an      *)
(* array of numbers is a record [arr |-> BOOLEAN, n |-> Int, a |-> Seq].   *)
(***************************************************************************)
EXTENDS Integers, Sequences, FiniteSets, TLC

VARIABLES
    suite,      \* the caller's test suite: names the expressions it compiles
    rnd,        \* the random source: random.die returns Draw(rnd, k) on its k-th call
    calls,      \* number of calls of random.die so far
    exprCache,  \* memoize cache of parse: source string -> evaluator
    rollCache,  \* memoize cache of createRoll: chunk string -> chunk function
    allocs,     \* number of evaluators created so far (an evaluator's identity)
    invocations,\* number of calls of an evaluator so far
    f,          \* the caller's last result of parse: an evaluator or an error
    res,        \* the caller's last result of calling the evaluator
    rolls,      \* the caller's array handed to an exported modifier
    mock,       \* the reroll function handed to an exported modifier
    mres,       \* the caller's last result of calling an exported modifier
    text,       \* the caller's string handed to the splitter
    pieces      \* the caller's last result of calling the splitter

vars == <<suite, rnd, calls, exprCache, rollCache, allocs, invocations, f, res,
          rolls, mock, mres, text, pieces>>

libVars == <<suite, rnd, calls, exprCache, rollCache, allocs, invocations, f, res>>

modVars == <<rolls, mock, mres>>

splitVars == <<text, pieces>>

(***************************************************************************)
(* Program constants.                                                      *)
(***************************************************************************)
MAX_CHUNKS == 10

MAX_DICE == 100

MAX_FACES == 1000

MAX_LENGTH == 60

\* F(v) with v evaluated once, before F is applied to it.
Bind(v, F(_)) == CHOOSE r \in {F(x) : x \in {v}} : TRUE

(***************************************************************************)
(* Characters and strings.                                                 *)
(***************************************************************************)
Digit == {"0", "1", "2", "3", "4", "5", "6", "7", "8", "9"}

DigitValue(c) ==
    CASE c = "0" -> 0 [] c = "1" -> 1 [] c = "2" -> 2 [] c = "3" -> 3
      [] c = "4" -> 4 [] c = "5" -> 5 [] c = "6" -> 6 [] c = "7" -> 7
      [] c = "8" -> 8 [] c = "9" -> 9

UpperCase == <<"A", "B", "C", "D", "E", "F", "G", "H", "I", "J", "K", "L", "M",
               "N", "O", "P", "Q", "R", "S", "T", "U", "V", "W", "X", "Y", "Z">>

LowerCase == <<"a", "b", "c", "d", "e", "f", "g", "h", "i", "j", "k", "l", "m",
               "n", "o", "p", "q", "r", "s", "t", "u", "v", "w", "x", "y", "z">>

LowerLetter == {LowerCase[i] : i \in 1..Len(LowerCase)}

\* lodash toLower on one character.
toLowerChar(c) ==
    IF \E i \in 1..Len(UpperCase) : UpperCase[i] = c
    THEN LowerCase[CHOOSE i \in 1..Len(UpperCase) : UpperCase[i] = c]
    ELSE c

\* lodash toLower: the string lower-cased, character by character.
toLower(str) == [i \in 1..Len(str) |-> toLowerChar(str[i])]

\* replaceAll(needle, newNeedle, haystack) for a one-character needle and an
\* empty replacement: haystack.split(needle).join('').
replaceAll(needle, haystack) == SelectSeq(haystack, LAMBDA c : c # needle)

\* The tidy step of parse: flow(toString, toLower, replaceAll(' ', '')).
Tidy(expr) == replaceAll(" ", toLower(expr))

\* str.substring(from, to) with 1-based inclusive bounds.
Sub(str, from, to) == [i \in 1..(to - from + 1) |-> str[from + i - 1]]

\* lodash toSafeInteger on a string: an optional sign and decimal digits give
\* the signed number; anything else (a bare sign) is NaN and gives 0.  The
\* strings of the model stay far below Number.MAX_SAFE_INTEGER, where
\* toSafeInteger clamps.
RECURSIVE DecimalValue(_, _)
DecimalValue(str, acc) ==
    IF str = <<>> THEN acc
    ELSE DecimalValue(Tail(str), 10 * acc + DigitValue(Head(str)))

\* The digits of str from its first non-zero digit on: leading zeros add
\* nothing to the value.
Significant(str) ==
    IF \A i \in 1..Len(str) : str[i] = "0" THEN <<>>
    ELSE Sub(str, CHOOSE i \in 1..Len(str) :
                      str[i] # "0" /\ \A j \in 1..(i - 1) : str[j] = "0",
             Len(str))

toSafeInteger(str) ==
    LET signed == str # <<>> /\ Head(str) \in {"+", "-"}
        digits == IF signed THEN Tail(str) ELSE str
    IN  IF digits = <<>> \/ \E i \in 1..Len(digits) : digits[i] \notin Digit
        THEN 0
        ELSE IF signed /\ Head(str) = "-"
             THEN 0 - DecimalValue(Significant(digits), 0)
             ELSE DecimalValue(Significant(digits), 0)

(***************************************************************************)
(* The chunk splitter: str.split(/(?<![rt!])(?=[+-])/).  The pattern is    *)
(* empty, so split cuts before every index q >= 1 (0-based) whose          *)
(* character is a sign and whose predecessor is none of r, t, !; index 0   *)
(* never cuts, and the empty string splits into one empty chunk.           *)
(***************************************************************************)
\* A pattern without the lookbehind: a cut before every sign but the first
\* character.
SplitPointEverySign(str, q) ==
    /\ q > 1
    /\ str[q] \in {"+", "-"}

SplitPoint(str, q) ==
    /\ q > 1
    /\ str[q] \in {"+", "-"}
    /\ str[q - 1] \notin {"r", "t", "!"}

\* The chunks of str, given the set of indexes where a chunk starts: the
\* k-th chunk runs from the k-th start to just before the next one.
chunksAt(str, starts) ==
    LET nth(k) == CHOOSE q \in starts : Cardinality({y \in starts : y <= q}) = k
    IN  [k \in 1..Cardinality(starts) |->
            Sub(str, nth(k),
                IF k = Cardinality(starts) THEN Len(str) ELSE nth(k + 1) - 1)]

chunk(str) ==
    Bind(str, LAMBDA s0 :
        Bind({1} \cup {q \in 1..Len(s0) : SplitPoint(s0, q)},
             LAMBDA starts : chunksAt(s0, starts)))

(***************************************************************************)
(* Regular expressions, as the sets of positions a match can end at.  A    *)
(* position is the index of the next character to read.                    *)
(***************************************************************************)
One(str, P, C) == {p + 1 : p \in {q \in P : q <= Len(str) /\ str[q] \in C}}

Opt(str, P, C) == Bind(P, LAMBDA P0 : P0 \cup One(str, P0, C))

\* C*: from a position of P, any number of characters of C.
Star(str, P, C) ==
    Bind(P, LAMBDA P0 :
        {q \in 1..(Len(str) + 1) :
            \E p \in P0 : p <= q /\ \A k \in p..(q - 1) : str[k] \in C})

Plus(str, P, C) == Star(str, One(str, P, C), C)

\* DICE_MODIFIERS = '[dk][lh]\\d*|[rt!][+-]?\\d*'
DICE_MODIFIERS(str, P) ==
    Bind(P, LAMBDA P0 :
        Star(str, One(str, One(str, P0, {"d", "k"}), {"l", "h"}), Digit)
        \cup Star(str, Opt(str, One(str, P0, {"r", "t", "!"}), {"+", "-"}), Digit))

\* DICE_CHUNK = (?<num>\d*)d(?<die>f|%|[\d]+)(?<modifier>DICE_MODIFIERS)?
DICE_CHUNK(str, P) ==
    Bind(One(str, Star(str, P, Digit), {"d"}), LAMBDA afterD :
        Bind(One(str, afterD, {"f"}) \cup One(str, afterD, {"%"})
                 \cup Plus(str, afterD, Digit),
             LAMBDA afterDie : afterDie \cup DICE_MODIFIERS(str, afterDie)))

\* VALID_CHUNK = ^([+-]?)(DICE_CHUNK|\d+)$
VALID_CHUNK(str) ==
    Bind(Opt(str, {1}, {"+", "-"}), LAMBDA afterSign :
        (Len(str) + 1) \in (DICE_CHUNK(str, afterSign) \cup Plus(str, afterSign, Digit)))

isInvalidChunk(c) == ~VALID_CHUNK(c)

(***************************************************************************)
(* The random source and the reroll function.  A source is a sequence      *)
(* that is constant from some index on: [vals |-> <<..>>, dflt |-> v].     *)
(* random.die(sides) returns the next value of the source; the reroll      *)
(* function of a pool is rollDice(1), which returns [die(sides) + offset]. *)
(***************************************************************************)
Draw(source, k) == IF k <= Len(source.vals) THEN source.vals[k] ELSE source.dflt

\* random.die: lodash random(1, sides) lies between the two bounds, which
\* lodash swaps when 1 > sides.
DieRange(sides) == IF sides >= 1 THEN 1..sides ELSE sides..1

NoError == "none"

\* The number of elements among xs[1..i] that equal arg.
CountEq(xs, arg, i) == Cardinality({j \in 1..i : xs[j] = arg})

\* The result of a modifier: the returned array, the number of calls of the
\* reroll function, the error thrown, and the caller's array after the call;
\* for explode also the number of passes of its loop, whether the loop was
\* left, and whether a roll equal to the target was pending when it ended.
ModResult(out, n, err, input) ==
    [out |-> out, n |-> n, err |-> err, input |-> input, passes |-> 0, left |-> TRUE,
     pending |-> FALSE]

(***************************************************************************)
(* The modifiers.  Each takes its argument, the rolls, and the reroll      *)
(* function as (source, pos, off): the k-th call of reroll returns         *)
(* Draw(source, pos + k) + off.                                            *)
(***************************************************************************)
\* A reroll that rolls one die and puts it in for every matching roll.
rerollOnce(arg, xs, source, pos, off) ==
    ModResult([i \in 1..Len(xs) |->
                  IF xs[i] = arg THEN Draw(source, pos + 1) + off ELSE xs[i]],
              IF CountEq(xs, arg, Len(xs)) > 0 THEN 1 ELSE 0, NoError, xs)

\* reroll: rolls.map(r => r === arg ? reroll()[0] : r)
reroll(arg, xs, source, pos, off) ==
    ModResult([i \in 1..Len(xs) |->
                  IF xs[i] = arg THEN Draw(source, pos + CountEq(xs, arg, i)) + off
                  ELSE xs[i]],
              CountEq(xs, arg, Len(xs)), NoError, xs)

\* twice: rolls.flatMap(r => r === arg ? [r, r] : r), over xs[lo..hi]; the
\* halving only keeps the evaluation shallow.
RECURSIVE twiceFlatMap(_, _, _, _)
twiceFlatMap(arg, xs, lo, hi) ==
    IF lo > hi THEN <<>>
    ELSE IF lo = hi THEN (IF xs[lo] = arg THEN <<xs[lo], xs[lo]>> ELSE <<xs[lo]>>)
         ELSE twiceFlatMap(arg, xs, lo, (lo + hi) \div 2)
              \o twiceFlatMap(arg, xs, (lo + hi) \div 2 + 1, hi)

twice(arg, xs, source, pos, off) ==
    ModResult(twiceFlatMap(arg, xs, 1, Len(xs)), 0, NoError, xs)

\* Array.prototype.sort with the comparator asc (a - b): the ascending
\* arrangement of the numbers, whose k-th element is the number v with fewer
\* than k elements below it and at least k elements not above it.
sortAsc(xs) ==
    [k \in 1..Len(xs) |->
        LET v == CHOOSE i \in 1..Len(xs) :
                     /\ Cardinality({j \in 1..Len(xs) : xs[j] < xs[i]}) < k
                     /\ Cardinality({j \in 1..Len(xs) : xs[j] <= xs[i]}) >= k
        IN  xs[v]]

\* Array.prototype.sort with the comparator desc (b - a).
Reverse(xs) == [i \in 1..Len(xs) |-> xs[Len(xs) + 1 - i]]

sortDesc(xs) == Reverse(sortAsc(xs))

\* lodash takeWhile(array, (v, i) => i < arg): the elements at the 0-based
\* indexes below arg.
takeWhileIndexBelow(xs, arg) ==
    LET k == IF arg < 0 THEN 0 ELSE IF arg > Len(xs) THEN Len(xs) ELSE arg
    IN  SubSeq(xs, 1, k)

\* lodash dropWhile(array, (v, i) => i < arg): the elements from the 0-based
\* index arg on.
dropWhileIndexBelow(xs, arg) ==
    LET k == IF arg < 0 THEN 0 ELSE IF arg > Len(xs) THEN Len(xs) ELSE arg
    IN  SubSeq(xs, k + 1, Len(xs))

\* keepHighest without the sort: the first arg rolls as they were rolled.
keepHighestUnsorted(arg, xs, source, pos, off) ==
    ModResult(takeWhileIndexBelow(xs, arg), 0, NoError, xs)

\* keepHighest: takeWhile(rolls.sort(desc), (v, i) => i < arg); sort sorts the
\* caller's array in place and returns it.
keepHighest(arg, xs, source, pos, off) ==
    ModResult(takeWhileIndexBelow(sortDesc(xs), arg), 0, NoError, sortDesc(xs))

\* keepLowest: takeWhile(rolls.sort(asc), (v, i) => i < arg)
keepLowest(arg, xs, source, pos, off) ==
    ModResult(takeWhileIndexBelow(sortAsc(xs), arg), 0, NoError, sortAsc(xs))

\* dropLowest: dropWhile(rolls.sort(asc), (v, i) => i < arg)
dropLowest(arg, xs, source, pos, off) ==
    ModResult(dropWhileIndexBelow(sortAsc(xs), arg), 0, NoError, sortAsc(xs))

\* dropHighest: dropWhile(rolls.sort(desc), (v, i) => i < arg)
dropHighest(arg, xs, source, pos, off) ==
    ModResult(dropWhileIndexBelow(sortDesc(xs), arg), 0, NoError, sortDesc(xs))

(***************************************************************************)
(* explode.  The working array holds numbers and the marker 'X': an        *)
(* element is [x |-> TRUE, v |-> 0] for 'X' and [x |-> FALSE, v |-> n] for *)
(* the number n.  'X' === arg is false for every number arg.               *)
(***************************************************************************)
Marker == [x |-> TRUE, v |-> 0]

Num(n) == [x |-> FALSE, v |-> n]

IsTarget(e, arg) == ~e.x /\ e.v = arg

\* The number of elements of ws[lo..hi] that are === arg.
Targets(arg, ws, lo, hi) == Cardinality({i \in lo..hi : IsTarget(ws[i], arg)})

\* One pass of the loop body, with pos calls of the reroll function made
\* before:
\*   newRolls.flatMap(r => r === arg ? ['X', reroll()[0]] : r)
\* flatMap goes left to right and calls reroll once per target, so the k-th
\* target gets the k-th call.  M holds, for the k-th target, the index its
\* 'X' lands at and k; the die rolled for it lands right behind, and every
\* other element moves up by the number of targets before it.
explodePass(arg, ws, source, pos, off) ==
    Bind({i \in 1..Len(ws) : IsTarget(ws[i], arg)}, LAMBDA T :
      Bind({<<t + Cardinality({u \in T : u < t}), Cardinality({u \in T : u <= t})>> :
               t \in T}, LAMBDA M :
        SubSeq([p \in 1..(Len(ws) + Cardinality(T)) |->
                   IF \E m \in M : m[1] = p THEN Marker
                   ELSE IF \E m \in M : m[1] + 1 = p
                        THEN Num(Draw(source,
                                      pos + (CHOOSE m \in M : m[1] + 1 = p)[2]) + off)
                        ELSE ws[p - Cardinality({m \in M : m[1] < p})]],
               1, Len(ws) + Cardinality(T))))

\* A test of the loop condition that leaves the sentinel alone when the pass
\* runs.
explodeStepNoCountdown(arg, st0, source, pos, off) ==
    Bind(st0, LAMBDA st :
    IF st.left THEN st
    ELSE IF st.sentinel > 0 /\ \E i \in 1..Len(st.arr) : IsTarget(st.arr[i], arg)
         THEN [arr |-> explodePass(arg, st.arr, source, pos + st.n, off),
               n |-> st.n + Targets(arg, st.arr, 1, Len(st.arr)),
               sentinel |-> st.sentinel, passes |-> st.passes + 1,
               left |-> FALSE]
         ELSE [arr |-> st.arr, n |-> st.n, sentinel |-> st.sentinel - 1,
               passes |-> st.passes, left |-> TRUE])

\* One test of the loop condition, and the pass when it holds:
\*   while (sentinel-- > 0 && newRolls.some(i => i === arg)) { pass }
\* on the loop state [arr, n, sentinel, passes, left], where n counts the
\* reroll calls, passes the runs of the body, and left says the loop was left.
\* The decrement happens on every test of the condition, also the failing one.
explodeStep(arg, st0, source, pos, off) ==
    Bind(st0, LAMBDA st :
    IF st.left THEN st
    ELSE IF st.sentinel > 0 /\ \E i \in 1..Len(st.arr) : IsTarget(st.arr[i], arg)
         THEN [arr |-> explodePass(arg, st.arr, source, pos + st.n, off),
               n |-> st.n + Targets(arg, st.arr, 1, Len(st.arr)),
               sentinel |-> st.sentinel - 1, passes |-> st.passes + 1,
               left |-> FALSE]
         ELSE [arr |-> st.arr, n |-> st.n, sentinel |-> st.sentinel - 1,
               passes |-> st.passes, left |-> TRUE])

\* k tests of the loop condition in a row.  The halving only keeps the
\* evaluation shallow.
RECURSIVE explodeSteps(_, _, _, _, _, _)
explodeSteps(arg, st0, k, source, pos, off) ==
    Bind(st0, LAMBDA st :
    IF k = 0 \/ st.left THEN st
    ELSE IF k = 1 THEN explodeStep(arg, st, source, pos, off)
         ELSE Bind(explodeSteps(arg, st, k \div 2, source, pos, off),
                   LAMBDA half : explodeSteps(arg, half, k - k \div 2, source, pos, off)))

\* The loop: the sentinel falls by one on every test, so the loop is left
\* within sentinel + 1 tests (one test when the sentinel starts at 0 or below).
explodeLoop(arg, ws, sentinel, source, pos, off) ==
    explodeSteps(arg, [arr |-> ws, n |-> 0, sentinel |-> sentinel, passes |-> 0,
                       left |-> FALSE],
                 IF sentinel > 0 THEN sentinel + 1 ELSE 1, source, pos, off)

\* What explode hands back from the state its loop ended in.
ExplodeResult(arg, out, err, input, st) ==
    [out |-> out, n |-> st.n, err |-> err, input |-> input, passes |-> st.passes,
     left |-> st.left, pending |-> \E i \in 1..Len(st.arr) : IsTarget(st.arr[i], arg)]

\* explode with each die taking the place of the roll it was rolled for: the
\* markers are dropped at the end instead of turned back into arg.
explodeReplacing(arg, xs, source, pos, off) ==
    Bind(explodeLoop(arg, [i \in 1..Len(xs) |-> Num(xs[i])], MAX_DICE - Len(xs),
                     source, pos, off),
         LAMBDA left :
           IF left.sentinel < 0
           THEN ExplodeResult(arg, <<>>, "RollLimitExceededError", xs, left)
           ELSE Bind(SelectSeq(left.arr, LAMBDA e : ~e.x), LAMBDA kept :
                  ExplodeResult(arg, [i \in 1..Len(kept) |-> kept[i].v], NoError, xs,
                                left)))

\* explode: the loop, then newRolls.flatMap(r => r === 'X' ? arg : r), or the
\* RollLimitExceededError when the sentinel ran out.
explode(arg, xs, source, pos, off) ==
    Bind(explodeLoop(arg, [i \in 1..Len(xs) |-> Num(xs[i])], MAX_DICE - Len(xs),
                     source, pos, off),
         LAMBDA left :
           IF left.sentinel < 0
           THEN ExplodeResult(arg, <<>>, "RollLimitExceededError", xs, left)
           ELSE ExplodeResult(arg, [i \in 1..Len(left.arr) |->
                                       IF left.arr[i].x THEN arg ELSE left.arr[i].v],
                              NoError, xs, left))

\* modifierFunctions: the token's function applied.  "ID" is the identity
\* createModifier returns for a chunk without a modifier.
modifierFunctions(func, arg, xs, source, pos, off) ==
    CASE func = "R"  -> reroll(arg, xs, source, pos, off)
      [] func = "T"  -> twice(arg, xs, source, pos, off)
      [] func = "!"  -> explode(arg, xs, source, pos, off)
      [] func = "KH" -> keepHighest(arg, xs, source, pos, off)
      [] func = "KL" -> keepLowest(arg, xs, source, pos, off)
      [] func = "DH" -> dropHighest(arg, xs, source, pos, off)
      [] func = "DL" -> dropLowest(arg, xs, source, pos, off)
      [] func = "ID" -> ModResult(xs, 0, NoError, xs)

(***************************************************************************)
(* The chunk compiler.  A chunk function is a record: a constant is        *)
(* [isRoll |-> FALSE, value |-> n, ...]; a dice pool holds what its        *)
(* closures hold: the sign, the number of dice, the faces, the offset, the *)
(* modifier's function ("ID" when there is none) and its argument.         *)
(***************************************************************************)
Part(isRoll, value, negative, num, die, offset, func, arg) ==
    [isRoll |-> isRoll, value |-> value, negative |-> negative, num |-> num,
     die |-> die, offset |-> offset, func |-> func, arg |-> arg]

Max(S) == CHOOSE x \in S : \A y \in S : y <= x

\* Math.min
Min2(a, b) == IF a < b THEN a ELSE b

\* defaultModifierArg(modifier, num, lowest, highest)
defaultModifierArg(modifier, num, lowest, highest) ==
    CASE modifier = "R" -> lowest
      [] modifier = "T" -> highest
      [] modifier = "!" -> highest
      [] OTHER -> Min2(1, num - 1)

\* func.toUpperCase() of the tokens the grammar lets through.
ModifierToken(func) ==
    CASE func = <<"r">> -> "R"
      [] func = <<"t">> -> "T"
      [] func = <<"!">> -> "!"
      [] func = <<"k", "h">> -> "KH"
      [] func = <<"k", "l">> -> "KL"
      [] func = <<"d", "h">> -> "DH"
      [] func = <<"d", "l">> -> "DL"

\* createModifier handing its bounds to defaultModifierArg under their own
\* names, lowest for lowest; the code hands them over by position.
createModifierByName(modifier, num, highest, lowest) ==
    IF modifier = <<>> THEN [func |-> "ID", arg |-> 0]
    ELSE Bind(Max(Plus(modifier, {1}, LowerLetter \cup {"!"})), LAMBDA funcEnd :
           Bind(ModifierToken(Sub(modifier, 1, funcEnd - 1)), LAMBDA func :
             Bind(Sub(modifier, funcEnd, Len(modifier)), LAMBDA rest :
               [func |-> func,
                arg  |-> IF Len(rest) = 0
                         THEN defaultModifierArg(func, num, lowest, highest)
                         ELSE toSafeInteger(rest)])))

\* createModifier(modifier, reroll, num, highest, lowest) as [func, arg]; the
\* modifier is <<>> when the chunk has none (isNil).  The match
\* /(?<func>[a-z!]+)(?<rest>.*)/ gives the longest run of letters and '!' and
\* the rest.
createModifier(modifier, num, highest, lowest) ==
    IF modifier = <<>> THEN [func |-> "ID", arg |-> 0]
    ELSE Bind(Max(Plus(modifier, {1}, LowerLetter \cup {"!"})), LAMBDA funcEnd :
           Bind(ModifierToken(Sub(modifier, 1, funcEnd - 1)), LAMBDA func :
             Bind(Sub(modifier, funcEnd, Len(modifier)), LAMBDA rest :
               [func |-> func,
                arg  |-> IF Len(rest) = 0
                         THEN defaultModifierArg(func, num, highest, lowest)
                         ELSE toSafeInteger(rest)])))

\* rollExpr.match(DICE_CHUNK).groups for a chunk VALID_CHUNK let through: the
\* quantifiers are greedy, so num is the longest run of digits, die is f, %
\* or the longest run of digits, and the modifier is the longest match of
\* DICE_MODIFIERS (<<>> when the group does not take part).
DiceGroups(rollExpr) ==
    Bind(Max(Star(rollExpr, {1}, Digit)), LAMBDA numEnd :
      Bind(IF rollExpr[numEnd + 1] \in {"f", "%"} THEN numEnd + 2
           ELSE Max(Plus(rollExpr, {numEnd + 1}, Digit)), LAMBDA dieEnd :
        Bind(DICE_MODIFIERS(rollExpr, {dieEnd}), LAMBDA modEnds :
          [num |-> Sub(rollExpr, 1, numEnd - 1),
           die |-> Sub(rollExpr, numEnd + 1, dieEnd - 1),
           modifier |-> IF modEnds = {} THEN <<>>
                        ELSE Sub(rollExpr, dieEnd, Max(modEnds) - 1)])))

\* A test that rejects from the limit on: it compares with >= instead of >.
TooManyDiceFromLimit(num) == num >= MAX_DICE

\* if (num > MAX_DICE)
TooManyDice(num) == num > MAX_DICE

\* if (die > MAX_FACES)
DieTooBig(die) == die > MAX_FACES

\* The body of createRoll as [err, part].
createRollBody(c) ==
    LET negative == c # <<>> /\ Head(c) = "-"
        rollExpr == IF negative \/ (c # <<>> /\ Head(c) = "+") THEN Tail(c) ELSE c
    IN  Bind(DiceGroups(rollExpr), LAMBDA g :
          LET num    == IF Len(g.num) = 0 THEN 1 ELSE toSafeInteger(g.num)
              offset == IF g.die = <<"f">> THEN 0 - 2 ELSE 0
              die    == IF g.die = <<"%">> THEN 100
                        ELSE IF g.die = <<"f">> THEN 3 ELSE toSafeInteger(g.die)
          IN  IF TooManyDice(num)
              THEN [err |-> "TooManyDiceError",
                    part |-> Part(TRUE, 0, negative, num, 0, 0, "ID", 0)]
              ELSE IF DieTooBig(die)
                   THEN [err |-> "DieTooBigError",
                         part |-> Part(TRUE, 0, negative, num, die, offset, "ID", 0)]
                   ELSE Bind(createModifier(g.modifier, num, 1 + offset, die + offset),
                             LAMBDA m :
                               [err |-> NoError,
                                part |-> Part(TRUE, 0, negative, num, die, offset,
                                              m.func, m.arg)]))

\* createConst: () => toSafeInteger(chunk)
createConst(c) == Part(FALSE, toSafeInteger(c), FALSE, 0, 0, 0, "ID", 0)

\* chunk.indexOf('d') === -1
HasNoD(c) == \A i \in 1..Len(c) : c[i] # "d"

\* chunks.map(createPart) from chunk i on, with createRoll memoized in cache:
\* [err, parts, cache].  A chunk function that throws is not cached, and the
\* chunks after it are not compiled.
RECURSIVE createParts(_, _, _, _)
createParts(chunks, i, cache0, acc0) ==
    Bind(cache0, LAMBDA cache : Bind(acc0, LAMBDA acc :
      IF i > Len(chunks) THEN [err |-> NoError, parts |-> acc, cache |-> cache]
      ELSE IF HasNoD(chunks[i])
           THEN createParts(chunks, i + 1, cache, Append(acc, createConst(chunks[i])))
           ELSE IF chunks[i] \in DOMAIN cache
                THEN createParts(chunks, i + 1, cache, Append(acc, cache[chunks[i]]))
                ELSE Bind(createRollBody(chunks[i]), LAMBDA r :
                       IF r.err # NoError
                       THEN [err |-> r.err, parts |-> <<>>, cache |-> cache]
                       ELSE createParts(chunks, i + 1,
                                        [k \in DOMAIN cache \cup {chunks[i]} |->
                                            IF k = chunks[i] THEN r.part ELSE cache[k]],
                                        Append(acc, r.part)))))

\* A length test on the tidied expression, which the code does not make: it
\* measures the string it was given.
ExpressionTooLongTidied(expr) == Len(Tidy(expr)) > MAX_LENGTH

\* if (expr.length > MAX_LENGTH)
ExpressionTooLong(expr) == Len(expr) > MAX_LENGTH

\* if (chunks.length > MAX_CHUNKS)
TooManyChunks(chunks) == Len(chunks) > MAX_CHUNKS

\* A report that stops at the first offending chunk.
firstInvalid(chunks) ==
    IF \E i \in 1..Len(chunks) : isInvalidChunk(chunks[i])
    THEN <<chunks[CHOOSE i \in 1..Len(chunks) :
                     /\ isInvalidChunk(chunks[i])
                     /\ \A j \in 1..(i - 1) : ~isInvalidChunk(chunks[j])]>>
    ELSE <<>>

\* chunks.filter(isInvalidChunk)
invalidChunks(chunks) == SelectSeq(chunks, isInvalidChunk)

\* The body of parse as [err, offenders, parts, cache]: offenders are the
\* chunks the InvalidChunkError message lists, cache is createRoll's cache
\* after the call.
parseBody(expr, cache) ==
    LET fail(kind, offenders) ==
            [err |-> kind, offenders |-> offenders, parts |-> <<>>, cache |-> cache]
    IN  IF ExpressionTooLong(expr) THEN fail("ExpressionTooLongError", <<>>)
        ELSE Bind(chunk(Tidy(expr)), LAMBDA chunks :
               IF TooManyChunks(chunks) THEN fail("TooManyChunksError", <<>>)
               ELSE Bind(invalidChunks(chunks), LAMBDA invalid :
                      IF invalid # <<>> THEN fail("InvalidChunkError", invalid)
                      ELSE Bind(createParts(chunks, 1, cache, <<>>), LAMBDA r :
                             [err |-> r.err, offenders |-> <<>>, parts |-> r.parts,
                              cache |-> r.cache])))

(***************************************************************************)
(* Evaluation.  A value is [arr |-> FALSE, n |-> number] or                *)
(* [arr |-> TRUE, a |-> array of numbers].                                 *)
(***************************************************************************)
Scalar(n) == [arr |-> FALSE, n |-> n, a |-> <<>>]

Array(a) == [arr |-> TRUE, n |-> 0, a |-> a]

\* A roll of num dice that hands out the first num values of the source again
\* on every call.
diceFuncReplay(die, offset, num, source, pos) ==
    [i \in 1..num |-> Draw(source, i) + offset]

\* diceFunc(die, offset)(num)(): num calls of random.die(die), each shifted.
diceFunc(die, offset, num, source, pos) ==
    [i \in 1..num |-> Draw(source, pos + i) + offset]

\* maybeNegate
maybeNegate(negative, roll) ==
    IF negative THEN [i \in 1..Len(roll) |-> 0 - roll[i]] ELSE roll

\* A chunk function that negates the rolls before the modifier sees them: the
\* order flow(rollDice(num), applyModifier, maybeNegate) does not have.
callPartNegateFirst(part, source, pos) ==
    IF ~part.isRoll THEN [err |-> NoError, value |-> Scalar(part.value), n |-> 0]
    ELSE Bind(diceFunc(part.die, part.offset, part.num, source, pos), LAMBDA base :
           Bind(modifierFunctions(part.func, part.arg,
                                  maybeNegate(part.negative, base), source,
                                  pos + part.num, part.offset), LAMBDA m :
             [err |-> m.err, value |-> Array(m.out), n |-> part.num + m.n]))

\* One chunk function called with random.die called pos times before:
\* [err, value, n] with n the number of calls of random.die it makes.  A dice
\* pool is flow(rollDice(num), applyModifier, maybeNegate).
callPart(part, source, pos) ==
    IF ~part.isRoll THEN [err |-> NoError, value |-> Scalar(part.value), n |-> 0]
    ELSE Bind(diceFunc(part.die, part.offset, part.num, source, pos), LAMBDA base :
           Bind(modifierFunctions(part.func, part.arg, base, source,
                                  pos + part.num, part.offset), LAMBDA m :
             [err |-> m.err,
              value |-> Array(maybeNegate(part.negative, m.out)),
              n |-> part.num + m.n]))

\* roll = () => parts.map(part => part()) as [err, values, sides]: sides lists
\* the argument of every call of random.die, in order.  A chunk function that
\* throws ends the call.
RECURSIVE roll(_, _, _, _, _, _)
roll(parts, i, source, pos, values0, sides0) ==
    Bind(values0, LAMBDA values : Bind(sides0, LAMBDA sides :
      IF i > Len(parts) THEN [err |-> NoError, values |-> values, sides |-> sides]
      ELSE Bind(callPart(parts[i], source, pos + Len(sides)), LAMBDA r :
             IF r.err # NoError
             THEN [err |-> r.err, values |-> <<>>,
                   sides |-> sides \o [k \in 1..r.n |-> parts[i].die]]
             ELSE roll(parts, i + 1, source, pos, Append(values, r.value),
                       sides \o [k \in 1..r.n |-> parts[i].die]))))

\* Array.prototype.flat: arrays are spliced in, numbers stay.
RECURSIVE flat(_)
flat(values) ==
    IF values = <<>> THEN <<>>
    ELSE (IF Head(values).arr THEN Head(values).a ELSE <<Head(values).n>>)
         \o flat(Tail(values))

\* The left fold of sum = (acc, val) => acc + val over xs[lo..hi], started
\* with acc: the elements are added to acc one by one, from lo to hi; the
\* halving only keeps the evaluation shallow.
RECURSIVE foldSum(_, _, _, _)
foldSum(xs, lo, hi, acc) ==
    IF lo > hi THEN acc
    ELSE IF lo = hi THEN acc + xs[lo]
         ELSE Bind(foldSum(xs, lo, (lo + hi) \div 2, acc), LAMBDA left :
                foldSum(xs, (lo + hi) \div 2 + 1, hi, left))

\* Array.prototype.reduce(sum) without an initial value as [err, n]: the first
\* element starts the fold, and an empty array throws a TypeError.
reduceSum(xs0) ==
    Bind(xs0, LAMBDA xs :
      IF xs = <<>> THEN [err |-> "TypeError", n |-> 0]
      ELSE [err |-> NoError, n |-> foldSum(xs, 2, Len(xs), xs[1])])

\* The evaluator (reduce = true) => reduce ? roll().flat().reduce(sum) : roll()
\* as [err, reduce, total, values, sides, at].
evaluator(parts, reduce, source, pos) ==
    Bind(roll(parts, 1, source, pos, <<>>, <<>>), LAMBDA r :
      LET result(err, total, values) ==
              [err |-> err, reduce |-> reduce, total |-> total, values |-> values,
               sides |-> r.sides, at |-> pos]
      IN  IF r.err # NoError THEN result(r.err, 0, <<>>)
          ELSE IF reduce
               THEN Bind(reduceSum(flat(r.values)), LAMBDA t :
                      IF t.err # NoError THEN result(t.err, 0, <<>>)
                      ELSE result(NoError, t.n, <<>>))
               ELSE result(NoError, 0, r.values))

(***************************************************************************)
(* The caller.  A suite names the expressions the caller compiles; the     *)
(* random source is fixed when the run starts.                             *)
(***************************************************************************)
MaxFace == 3

MaxSourceLen == 1

MaxInvocations == 2

\* The sources: every sequence over 1..MaxFace of at most MaxSourceLen values,
\* followed by a constant.
Sources ==
    {src \in [vals : UNION {[1..n -> 1..MaxFace] : n \in 0..MaxSourceLen},
              dflt : 1..MaxFace] :
        Len(src.vals) = 0 \/ src.vals[Len(src.vals)] # src.dflt}

ConstSources == {src \in Sources : Len(src.vals) = 0}

EvalSuites == {"mixed", "const", "empty", "none", "signed", "fudge", "grow", "again"}

\* The expressions of the evaluation suites.
EvalExprs(s) ==
    CASE s = "mixed" ->
        {<<"2", "d", "3", "-", "1">>,
         <<"3", "-", "1", "d", "2", "+", "2">>}
      [] s = "const" ->
        {<<"-", "3">>,
         <<"2", "+", "d", "3">>}
      [] s = "empty" ->
        {<<"0", "d", "3">>,
         <<"3", "+", "1", "d", "3", "d", "l", "1">>}
      [] s = "none" ->
        {<<"1", "d", "3", "d", "l", "1">>,
         <<"-", "2", "d", "3", "k", "h", "0">>}
      [] s = "signed" ->
        {<<"-", "2", "d", "3", "k", "h", "1">>,
         <<"-", "2", "d", "f", "r", "-", "1">>}
      [] s = "fudge" ->
        {<<"-", "2", "d", "3", "k", "l">>,
         <<"-", "2", "d", "f", "!">>}
      [] s = "grow" ->
        {<<"2", "d", "2", "!">>,
         <<"-", "1", "d", "2", "t">>}
      [] s = "again" ->
        {<<"2", "d", "2", "r">>,
         <<"-", "1", "d", "2", "!", "1">>}

\* unit repeated n times.
Repeat(unit, n) == [i \in 1..(n * Len(unit)) |-> unit[((i - 1) % Len(unit)) + 1]]

\* Pools without a modifier, with the count 0, omitted, small and at the limit.
CountSuites == {"count0", "count2", "count100", "countsign"}

CountExprs(s) ==
    CASE s = "count0" ->
        {<<"0", "d", "3">>,
         <<"d", "3">>}
      [] s = "count2" ->
        {<<"-", "2", "d", "3">>,
         <<"2", "d", "2">>}
      [] s = "count100" ->
        {<<"1", "0", "0", "d", "3">>,
         <<"-", "1", "0", "0", "d", "1">>}
      [] s = "countsign" ->
        {<<"+", "3", "d", "3">>,
         <<"-", "d", "2">>}

\* Expressions at and just past the limits on chunks, dice and faces.
LimitSuites == {"chunks", "dice", "faces", "both", "order"}

LimitExprs(s) ==
    CASE s = "chunks" ->
        {<<"1">> \o Repeat(<<"+", "1">>, MAX_CHUNKS - 1),
         <<"1">> \o Repeat(<<"+", "1">>, MAX_CHUNKS)}
      [] s = "dice" ->
        {<<"1", "0", "0", "d", "6">>,
         <<"1", "0", "1", "d", "6">>}
      [] s = "faces" ->
        {<<"1", "d", "1", "0", "0", "0">>,
         <<"1", "d", "1", "0", "0", "1">>}
      [] s = "both" ->
        {<<"-", "1", "0", "0", "d", "1", "0", "0", "0", "+", "1", "0", "0", "d", "%">>,
         <<"1", "0", "1", "d", "1", "0", "0", "1">>}
      [] s = "order" ->
        {Repeat(<<"1", "+">>, MAX_CHUNKS) \o <<"1", "0", "1", "d", "6">>,
         <<"2", "+", "1", "d", "1", "0", "0", "1", "+", "1", "0", "1", "d", "6">>}

\* Expressions at and just past the length limit, with and without blanks.
LengthSuites == {"pad", "digits", "inner", "terms"}

LengthExprs(s) ==
    CASE s = "pad" ->
        {<<"1", "d", "3">> \o Repeat(<<" ">>, MAX_LENGTH - 3),
         <<"1", "d", "3">> \o Repeat(<<" ">>, MAX_LENGTH - 2)}
      [] s = "digits" ->
        {Repeat(<<"0">>, MAX_LENGTH),
         Repeat(<<"0">>, MAX_LENGTH + 1)}
      [] s = "inner" ->
        {<<"2">> \o Repeat(<<" ">>, MAX_LENGTH - 3) \o <<"D", "3">>,
         <<"2">> \o Repeat(<<" ">>, MAX_LENGTH - 2) \o <<"d", "3">>}
      [] s = "terms" ->
        {Repeat(<<"+", "1", "d", "3", "0", "0">>, MAX_LENGTH \div 6),
         Repeat(<<"+", "1", "d", "3", "0", "0">>, MAX_LENGTH \div 6) \o <<"0">>}

\* Expressions with chunks the grammar rejects, next to ones it accepts.
GrammarSuites == {"barekeep", "baredrop", "barehl", "letter", "several", "valid", "nochunk", "signs", "chained", "args"}

GrammarExprs(s) ==
    CASE s = "barekeep" ->
        {<<"4", "d", "1", "0", "k">>,
         <<"4", "d", "1", "0", "k", "1">>}
      [] s = "baredrop" ->
        {<<"4", "d", "1", "0", "d">>,
         <<"4", "D", "1", "0", "D", "1">>}
      [] s = "barehl" ->
        {<<"4", "d", "1", "0", "h", "2">>,
         <<"4", "d", "1", "0", "l">>}
      [] s = "letter" ->
        {<<"6", "d", "2", "0", "f", "9">>,
         <<"2", "d", "3", "x">>}
      [] s = "several" ->
        {<<"2", "d", "3", "+", "4", "d", "1", "0", "k", "-", "1", "d", "6", "q", "+", "2">>,
         <<"d", "6", "r", "+", "d", "4">>}
      [] s = "valid" ->
        {<<"2", "d", "3", "k", "h", "1", "-", "d", "%", "r", "-", "1", "+", "d", "F", "!">>,
         <<"d", "6", "r", "-">>}
      [] s = "nochunk" ->
        {<<>>,
         <<"a", "b", "c">>}
      [] s = "signs" ->
        {<<"2", "d", "3", "+", "+", "1">>,
         <<"1", "d">>}
      [] s = "chained" ->
        {<<"2", "d", "3", "k", "h", "1", "k", "l", "1">>,
         <<"2", "d", "3", "r", "1", "-", "1">>}
      [] s = "args" ->
        {<<"2", "d", "3", "k", "h", "-", "1">>,
         <<"2", "d", "3", "!", "+", "2">>}

\* Keep and drop modifiers written without an argument.
DefaultSuites == {"kh", "kl", "dh", "dl"}

DefaultExprs(s) ==
    CASE s = "kh" ->
        {<<"1", "d", "3", "k", "h">>,
         <<"2", "d", "3", "k", "h">>}
      [] s = "kl" ->
        {<<"1", "d", "3", "k", "l">>,
         <<"3", "d", "3", "k", "l">>}
      [] s = "dh" ->
        {<<"1", "d", "3", "d", "h">>,
         <<"2", "d", "3", "d", "h">>}
      [] s = "dl" ->
        {<<"1", "d", "3", "d", "l">>,
         <<"4", "d", "3", "d", "l">>}

\* Reroll, count-twice and explode with and without an argument.
ArgSuites == {"rerolls", "twices", "explodes", "percent", "explicit", "plus"}

ArgExprs(s) ==
    CASE s = "rerolls" ->
        {<<"2", "d", "3", "r">>,
         <<"2", "d", "F", "r">>}
      [] s = "twices" ->
        {<<"d", "%", "t">>,
         <<"2", "d", "f", "t">>}
      [] s = "explodes" ->
        {<<"2", "d", "3", "!">>,
         <<"2", "d", "f", "!">>}
      [] s = "percent" ->
        {<<"d", "%", "r">>,
         <<"d", "%", "!">>}
      [] s = "explicit" ->
        {<<"2", "d", "f", "r", "-", "1">>,
         <<"2", "d", "f", "!", "-", "1">>}
      [] s = "plus" ->
        {<<"2", "d", "3", "t", "+", "2">>,
         <<"2", "d", "f", "r", "+", "1">>}

\* Expressions compiled more than once, written the same way and with other
\* blanks and letter case; expressions that fail next to ones that compile.
CacheSuites == {"spaced", "cased", "failing", "toomany"}

CacheExprs(s) ==
    CASE s = "spaced" ->
        {<<"2", "d", "3", "-", "1">>,
         <<" ", "2", " ", "D", "3", " ", "-", " ", "1">>}
      [] s = "cased" ->
        {<<"2", "D", "3", "+", "d", "3", "R">>,
         <<"2", "d", "3", "+", "d", "3", "r">>}
      [] s = "failing" ->
        {<<"2", "d", "3", "x">>,
         <<"2", "d", "3", "!">>}
      [] s = "toomany" ->
        {<<"2", "d", "3", "+", "1", "0", "1", "d", "3">>,
         <<"2", "d", "3", "+", "d", "2", "!">>}

Exprs(s) ==
    CASE s \in EvalSuites -> EvalExprs(s)
      [] s \in CountSuites -> CountExprs(s)
      [] s \in LimitSuites -> LimitExprs(s)
      [] s \in LengthSuites -> LengthExprs(s)
      [] s \in GrammarSuites -> GrammarExprs(s)
      [] s \in DefaultSuites -> DefaultExprs(s)
      [] s \in ArgSuites -> ArgExprs(s)
      [] s \in CacheSuites -> CacheExprs(s)

\* The suites about rolled values run under every source, the others under
\* the constant ones.
SourcesOf(s) ==
    IF s \in EvalSuites \cup DefaultSuites \cup CacheSuites THEN Sources ELSE ConstSources

NoF == [kind |-> "none", err |-> NoError, offenders |-> <<>>, src |-> <<>>,
        id |-> 0, parts |-> <<>>, fresh |-> FALSE]

NoRes == [kind |-> "none", err |-> NoError, reduce |-> FALSE, total |-> 0,
          values |-> <<>>, sides |-> <<>>, at |-> 0]

NoMres == [kind |-> "none", name |-> "", arg |-> 0, before |-> <<>>, out |-> <<>>,
           n |-> 0, err |-> NoError, passes |-> 0, left |-> TRUE, pending |-> FALSE]

NoText == <<>>

NoPieces == <<>>

EmptyCache == [k \in {} |-> 0]

IdleMock == [vals |-> <<>>, dflt |-> 1]

InitLib(S) ==
    /\ suite \in S
    /\ rnd \in SourcesOf(suite)
    /\ calls = 0
    /\ exprCache = EmptyCache
    /\ rollCache = EmptyCache
    /\ allocs = 0
    /\ invocations = 0
    /\ f = NoF
    /\ res = NoRes
    /\ rolls = <<>>
    /\ mock = IdleMock
    /\ mres = NoMres
    /\ text = NoText
    /\ pieces = NoPieces

\* A resolver that keys the cache on the tidied expression.
resolverTidied(expr) == Tidy(expr)

\* memoize without a resolver: the cache key is the first argument as given.
resolver(expr) == expr

\* A cache that never reports a key as present.
hasNothing(cache, key) == FALSE

\* memoize's cache.has(key)
has(cache, key) == key \in DOMAIN cache

\* parse(expr): memoize looks the source string up, and on a miss runs the
\* body and stores what it returns; a body that throws stores nothing.
parse(expr) ==
    IF has(exprCache, resolver(expr))
    THEN /\ f' = [kind |-> "evaluator", err |-> NoError, offenders |-> <<>>,
                  src |-> expr, id |-> exprCache[resolver(expr)].id,
                  parts |-> exprCache[resolver(expr)].parts, fresh |-> FALSE]
         /\ UNCHANGED <<exprCache, rollCache, allocs>>
    ELSE \E b \in {parseBody(expr, rollCache)} :
             /\ rollCache' = b.cache
             /\ IF b.err = NoError
                THEN /\ allocs' = allocs + 1
                     /\ exprCache' = [k \in DOMAIN exprCache \cup {resolver(expr)} |->
                                         IF k = resolver(expr)
                                         THEN [id |-> allocs + 1, parts |-> b.parts]
                                         ELSE exprCache[k]]
                     /\ f' = [kind |-> "evaluator", err |-> NoError,
                              offenders |-> <<>>, src |-> expr, id |-> allocs + 1,
                              parts |-> b.parts, fresh |-> TRUE]
                ELSE /\ UNCHANGED <<exprCache, allocs>>
                     /\ f' = [kind |-> "error", err |-> b.err,
                              offenders |-> b.offenders, src |-> expr, id |-> 0,
                              parts |-> <<>>, fresh |-> TRUE]

\* The caller compiles an expression of its suite and drops its last result.
Compile(expr) ==
    /\ parse(expr)
    /\ res' = NoRes
    /\ UNCHANGED <<suite, rnd, calls, invocations, modVars, splitVars>>

\* The caller calls the evaluator it holds.  The step is possible when every
\* value the source hands out is a face of the die asked for.
Invoke(reduce) ==
    /\ f.kind = "evaluator"
    /\ invocations < MaxInvocations
    /\ \E r \in {evaluator(f.parts, reduce, rnd, calls)} :
           /\ \A k \in 1..Len(r.sides) : Draw(rnd, calls + k) \in DieRange(r.sides[k])
           /\ res' = [kind |-> "done", err |-> r.err, reduce |-> r.reduce,
                      total |-> r.total, values |-> r.values, sides |-> r.sides,
                      at |-> r.at]
           /\ calls' = calls + Len(r.sides)
    /\ invocations' = invocations + 1
    /\ UNCHANGED <<suite, rnd, exprCache, rollCache, allocs, f, modVars, splitVars>>

NextLib ==
    \/ \E expr \in Exprs(suite) : Compile(expr)
    \/ \E reduce \in BOOLEAN : Invoke(reduce)

InitEval == InitLib(EvalSuites)

SpecEval == InitEval /\ [][NextLib]_vars

InitCount == InitLib(CountSuites)

SpecCount == InitCount /\ [][NextLib]_vars

InitLimits == InitLib(LimitSuites)

SpecLimits == InitLimits /\ [][NextLib]_vars

InitLength == InitLib(LengthSuites)

SpecLength == InitLength /\ [][NextLib]_vars

InitGrammar == InitLib(GrammarSuites)

SpecGrammar == InitGrammar /\ [][NextLib]_vars

InitDefaults == InitLib(DefaultSuites)

SpecDefaults == InitDefaults /\ [][NextLib]_vars

InitArgs == InitLib(ArgSuites)

SpecArgs == InitArgs /\ [][NextLib]_vars

InitCache == InitLib(CacheSuites)

SpecCache == InitCache /\ [][NextLib]_vars


(***************************************************************************)
(* The exported modifiers, called directly: modifier(arg, reroll)(rolls)   *)
(* on an array the caller holds, with a reroll function that hands out the *)
(* values of a source one by one.  The caller makes one call.              *)
(***************************************************************************)
MaxPool == 3

Pools == UNION {[1..n -> 1..MaxFace] : n \in 0..MaxPool}

CountArgs == 0..MaxPool

FaceArgs == 1..MaxFace

\* One call of an exported modifier with the reroll function given: what it
\* returned or threw is kept in mres, rolls is the caller's array after the
\* call.
CallModifier(name, arg, reroll0) ==
    /\ mres.kind = "none"
    /\ \E r \in {modifierFunctions(name, arg, rolls, reroll0, 0, 0)} :
           /\ mres' = [kind |-> "done", name |-> name, arg |-> arg, before |-> rolls,
                       out |-> r.out, n |-> r.n, err |-> r.err, passes |-> r.passes,
                       left |-> r.left, pending |-> r.pending]
           /\ rolls' = r.input
    /\ mock' = reroll0
    /\ UNCHANGED <<libVars, splitVars>>

CallReroll(arg, reroll0) == CallModifier("R", arg, reroll0)

CallExplode(arg, reroll0) == CallModifier("!", arg, reroll0)

\* The other modifiers take the reroll function and never call it.
CallTwice(arg) == CallModifier("T", arg, IdleMock)

CallKeepHighest(arg) == CallModifier("KH", arg, IdleMock)

CallKeepLowest(arg) == CallModifier("KL", arg, IdleMock)

CallDropHighest(arg) == CallModifier("DH", arg, IdleMock)

CallDropLowest(arg) == CallModifier("DL", arg, IdleMock)

NextMod ==
    \/ \E arg \in FaceArgs, reroll0 \in Sources : CallReroll(arg, reroll0)
    \/ \E arg \in FaceArgs, reroll0 \in Sources : CallExplode(arg, reroll0)
    \/ \E arg \in FaceArgs : CallTwice(arg)
    \/ \E arg \in CountArgs : CallKeepHighest(arg)
    \/ \E arg \in CountArgs : CallKeepLowest(arg)
    \/ \E arg \in CountArgs : CallDropHighest(arg)
    \/ \E arg \in CountArgs : CallDropLowest(arg)

InitMod ==
    /\ suite = "modifiers"
    /\ rnd = IdleMock
    /\ calls = 0
    /\ exprCache = EmptyCache
    /\ rollCache = EmptyCache
    /\ allocs = 0
    /\ invocations = 0
    /\ f = NoF
    /\ res = NoRes
    /\ rolls \in Pools
    /\ mock = IdleMock
    /\ mres = NoMres
    /\ text = NoText
    /\ pieces = NoPieces

SpecMod == InitMod /\ [][NextMod]_vars

(***************************************************************************)
(* explode called directly on pools near the limit on dice: MAX_DICE -     *)
(* MaxPool to MAX_DICE rolls of one face, the last few of another, next to *)
(* the short pools.  For a pool of MaxPool rolls or more the reroll        *)
(* function hands out one face throughout.                                 *)
(***************************************************************************)
BigPools ==
    {[i \in 1..n |-> IF i > n - k THEN w ELSE v] :
        n \in (MAX_DICE - MaxPool)..MAX_DICE, k \in 0..MaxPool,
        v \in 1..MaxFace, w \in 1..MaxFace}

\* The reroll functions handed to explode: every source for a pool shorter
\* than MaxPool, the constant ones for the others.
RerollsFor(pool) == IF Len(pool) < MaxPool THEN Sources ELSE ConstSources

NextExplode ==
    \E arg \in FaceArgs, reroll0 \in RerollsFor(rolls) : CallExplode(arg, reroll0)

InitExplode ==
    /\ suite = "explode"
    /\ rnd = IdleMock
    /\ calls = 0
    /\ exprCache = EmptyCache
    /\ rollCache = EmptyCache
    /\ allocs = 0
    /\ invocations = 0
    /\ f = NoF
    /\ res = NoRes
    /\ rolls \in Pools \cup BigPools
    /\ mock = IdleMock
    /\ mres = NoMres
    /\ text = NoText
    /\ pieces = NoPieces

SpecExplode == InitExplode /\ [][NextExplode]_vars

(***************************************************************************)
(* The splitter called directly on a tidied string: every string of at     *)
(* most MaxText characters made of the signs, the characters the pattern   *)
(* looks behind for, a d and a digit.                                      *)
(***************************************************************************)
MaxText == 4

TextChars == {"+", "-", "r", "t", "!", "d", "2"}

Texts == UNION {[1..n -> TextChars] : n \in 0..MaxText}

\* The caller splits its string, once.
Split ==
    /\ pieces = NoPieces
    /\ pieces' = chunk(text)
    /\ UNCHANGED <<libVars, modVars, text>>

NextSplit == Split

InitSplit ==
    /\ suite = "split"
    /\ rnd = IdleMock
    /\ calls = 0
    /\ exprCache = EmptyCache
    /\ rollCache = EmptyCache
    /\ allocs = 0
    /\ invocations = 0
    /\ f = NoF
    /\ res = NoRes
    /\ rolls = <<>>
    /\ mock = IdleMock
    /\ mres = NoMres
    /\ text \in Texts
    /\ pieces = NoPieces

SpecSplit == InitSplit /\ [][NextSplit]_vars

(***************************************************************************)
(* Properties of the exported modifiers.                                   *)
(***************************************************************************)
\* How often v occurs in xs.
Occurrences(xs, v) == Cardinality({i \in 1..Len(xs) : xs[i] = v})

Values(xs) == {xs[i] : i \in 1..Len(xs)}

SameBag(xs, ys) ==
    /\ Len(xs) = Len(ys)
    /\ \A v \in Values(xs) \cup Values(ys) : Occurrences(xs, v) = Occurrences(ys, v)

\* out holds n of the rolls xs, and no roll left out is larger than one of
\* them.
Largest(out, xs, n) ==
    /\ Len(out) = n
    /\ \A v \in Values(out) : Occurrences(out, v) <= Occurrences(xs, v)
    /\ \A v \in Values(out), w \in Values(xs) :
           Occurrences(out, w) < Occurrences(xs, w) => w <= v

\* out holds n of the rolls xs, and no roll left out is smaller than one of
\* them.
Smallest(out, xs, n) ==
    /\ Len(out) = n
    /\ \A v \in Values(out) : Occurrences(out, v) <= Occurrences(xs, v)
    /\ \A v \in Values(out), w \in Values(xs) :
           Occurrences(out, w) < Occurrences(xs, w) => w >= v

KeepDropCall == mres.kind = "done" /\ mres.arg \in 0..Len(mres.before)

\* C8: on c rolls, for 0 <= N <= c, keepHighest(N) and dropLowest(c - N)
\* return the same multiset, the N largest rolls, keepLowest(N) and
\* dropHighest(c - N) the same multiset, the N smallest; none of the four
\* calls the reroll function.
C8_KeepDropComplement ==
    \A xs \in {mres.before} : \A c \in {Len(mres.before)} :
        /\ (KeepDropCall /\ mres.name = "KH") =>
               /\ SameBag(mres.out, dropLowest(c - mres.arg, xs, mock, 0, 0).out)
               /\ Largest(mres.out, xs, mres.arg)
               /\ mres.n = 0 /\ mres.err = NoError
        /\ (KeepDropCall /\ mres.name = "DL") =>
               /\ SameBag(mres.out, keepHighest(c - mres.arg, xs, mock, 0, 0).out)
               /\ Largest(mres.out, xs, c - mres.arg)
               /\ mres.n = 0 /\ mres.err = NoError
        /\ (KeepDropCall /\ mres.name = "KL") =>
               /\ SameBag(mres.out, dropHighest(c - mres.arg, xs, mock, 0, 0).out)
               /\ Smallest(mres.out, xs, mres.arg)
               /\ mres.n = 0 /\ mres.err = NoError
        /\ (KeepDropCall /\ mres.name = "DH") =>
               /\ SameBag(mres.out, keepLowest(c - mres.arg, xs, mock, 0, 0).out)
               /\ Smallest(mres.out, xs, c - mres.arg)
               /\ mres.n = 0 /\ mres.err = NoError

\* keepHighest(2) on three unequal rolls that were not rolled in order.
C8_KeepTwoOfThree ==
    /\ mres.kind = "done" /\ mres.name = "KH" /\ mres.arg = 2
    /\ mres.before = <<1, 3, 2>>
    /\ mres.out = <<3, 2>>

\* The indexes of out that hold original rolls, when every target is
\* followed by the die rolled for it: the first one, and every one that does
\* not follow a target.
Originals(out, target) == {p \in 1..Len(out) : p = 1 \/ out[p - 1] # target}

\* C10: when explode(target) returns, its output is the input with every
\* roll equal to target, original or new, kept and followed at once by the
\* die rolled for it: the original rolls are all there in their order, the
\* output is longer than the input by the number of reroll calls, the dice
\* are the values the reroll function handed out, and no target is last.
C10_ExplodeKeepsAndFollows ==
    (mres.kind = "done" /\ mres.name = "!" /\ mres.err = NoError) =>
        \A out \in {mres.out} : \A orig \in {Originals(mres.out, mres.arg)} :
            /\ Len(out) = Len(mres.before) + mres.n
            /\ Cardinality(orig) = Len(mres.before)
            /\ \A p \in orig :
                   out[p] = mres.before[Cardinality({q \in orig : q <= p})]
            /\ \A p \in 1..Len(out) : out[p] = mres.arg => p < Len(out)
            /\ \A v \in 1..MaxFace :
                   Cardinality({p \in (1..Len(out)) \ orig : out[p] = v})
                       = Cardinality({k \in 1..mres.n : Draw(mock, k) = v})

\* Two targets, the first of which rolls the target again: a chain of two
\* dice behind the first roll, one die behind the second.
C10_ChainBehindFirstRoll ==
    /\ mres.kind = "done" /\ mres.name = "!" /\ mres.err = NoError
    /\ mres.arg = 3
    /\ mres.before = <<3, 3>>
    /\ mres.n = 3
    /\ mres.out = <<3, 3, 1, 3, 1>>

(***************************************************************************)
(* Properties of the evaluator.                                            *)
(***************************************************************************)
\* The sum of xs[lo..hi], 0 when there is nothing to add.
RECURSIVE SumOf(_, _, _)
SumOf(xs, lo, hi) ==
    IF lo > hi THEN 0
    ELSE IF lo = hi THEN xs[lo]
         ELSE SumOf(xs, lo, (lo + hi) \div 2) + SumOf(xs, (lo + hi) \div 2 + 1, hi)

Negated(xs) == [j \in 1..Len(xs) |-> 0 - xs[j]]

\* C1: a call with reduce = true returns the sum of the flattened result that
\* a call with reduce = false returns for the same random sequence, 0 when
\* every pool ends up empty, and does not fail where the unreduced call
\* succeeds.
C1_ReducedIsSumOfUnreduced ==
    (res.kind = "done" /\ res.reduce) =>
        \A u \in {evaluator(f.parts, FALSE, rnd, res.at)} :
            u.err = NoError =>
                /\ res.err = NoError
                /\ res.total = SumOf(flat(u.values), 1, Len(flat(u.values)))

\* The rolls chunk i hands back before its sign is applied, with random.die
\* called pos times before: the pool after its modifier.
PostModifier(part, pos) ==
    modifierFunctions(part.func, part.arg,
                      diceFunc(part.die, part.offset, part.num, rnd, pos),
                      rnd, pos + part.num, part.offset)

\* The entry chunk c contributes, part being its chunk function.
ExpectedEntry(c, part, pos) ==
    IF HasNoD(c) THEN Scalar(toSafeInteger(c))
    ELSE IF Head(c) = "-" THEN Array(Negated(PostModifier(part, pos).out))
         ELSE Array(PostModifier(part, pos).out)

\* The number of calls of random.die the chunks before chunk i make.
RECURSIVE DrawsBefore(_, _)
DrawsBefore(parts, i) ==
    IF i <= 1 THEN 0
    ELSE Bind(DrawsBefore(parts, i - 1), LAMBDA before :
           IF parts[i - 1].isRoll
           THEN before + parts[i - 1].num + PostModifier(parts[i - 1], res.at + before).n
           ELSE before)

C1_EmptyPoolReduced ==
    /\ res.kind = "done" /\ res.reduce
    /\ \A u \in {evaluator(f.parts, FALSE, rnd, res.at)} :
           u.err = NoError /\ flat(u.values) = <<>>

Unsigned(c) == IF c # <<>> /\ c[1] \in {"+", "-"} THEN Sub(c, 2, Len(c)) ELSE c

AllDigits(str) == \A i \in 1..Len(str) : str[i] \in Digit

\* The number of digits str has from index from on, before anything else.
DigitRun(str, from) ==
    Cardinality({i \in from..Len(str) : \A k \in from..i : str[k] \in Digit})

\* The index of the d of a pool chunk.
DAt(c) == DigitRun(Unsigned(c), 1) + 1

HasFaces(c) ==
    /\ Len(Unsigned(c)) >= DAt(c) + 1
    /\ Unsigned(c)[DAt(c)] = "d"
    /\ Unsigned(c)[DAt(c) + 1] \in Digit \cup {"f", "%"}

FacesEnd(c) ==
    IF Unsigned(c)[DAt(c) + 1] \in {"f", "%"} THEN DAt(c) + 1
    ELSE DAt(c) + DigitRun(Unsigned(c), DAt(c) + 1)

CountText(c) == Sub(Unsigned(c), 1, DAt(c) - 1)

FacesText(c) == Sub(Unsigned(c), DAt(c) + 1, FacesEnd(c))

ModifierText(c) == Sub(Unsigned(c), FacesEnd(c) + 1, Len(Unsigned(c)))

KeepDropNames == {<<"k", "h">>, <<"k", "l">>, <<"d", "h">>, <<"d", "l">>}

FaceNames == {"r", "t", "!"}

ModifierOK(m) ==
    \/ m = <<>>
    \/ /\ m[1] \in FaceNames
       /\ AllDigits(Unsigned(Sub(m, 2, Len(m))))
    \/ /\ Len(m) >= 2
       /\ Sub(m, 1, 2) \in KeepDropNames
       /\ AllDigits(Sub(m, 3, Len(m)))

MatchesGrammar(c) ==
    \/ Unsigned(c) # <<>> /\ AllDigits(Unsigned(c))
    \/ HasFaces(c) /\ ModifierOK(ModifierText(c))

IsPool(c) == MatchesGrammar(c) /\ ~AllDigits(Unsigned(c))

\* The count and the faces a pool chunk asks for.
CountOf(c) == IF CountText(c) = <<>> THEN 1 ELSE toSafeInteger(CountText(c))

FacesOf(c) ==
    IF FacesText(c) = <<"f">> THEN 3
    ELSE IF FacesText(c) = <<"%">> THEN 100 ELSE toSafeInteger(FacesText(c))

\* The chunks of the expression the caller compiled last.
SrcChunks == chunk(Tidy(f.src))

Compiled == f.kind # "none"

(***************************************************************************)
(* Properties of the compiler.                                             *)
(***************************************************************************)
\* C3: a pool without a modifier, N dice of F faces, under a source that
\* always returns v: the reduced call returns N*v, or -N*v for a chunk with
\* a leading minus, and calls the source N times with F.
C3_PlainPoolTotal ==
    (/\ res.kind = "done" /\ res.reduce
     /\ rnd.vals = <<>>
     /\ Len(SrcChunks) = 1
     /\ IsPool(SrcChunks[1]) /\ ModifierText(SrcChunks[1]) = <<>>)
    => \A c \in {SrcChunks[1]} :
           /\ res.err = NoError
           /\ res.total = (IF c[1] = "-" THEN 0 - 1 ELSE 1) * CountOf(c) * rnd.dflt
           /\ res.sides = [k \in 1..CountOf(c) |-> FacesOf(c)]

\* C4's limits, read off the chunks.
WithinLimits(chunks) ==
    /\ Len(chunks) <= 10
    /\ \A i \in 1..Len(chunks) :
           IsPool(chunks[i]) => CountOf(chunks[i]) <= 100 /\ FacesOf(chunks[i]) <= 1000

C5_TooLongIffTidiedTooLong ==
    Compiled => (f.err = "ExpressionTooLongError" <=> Len(Tidy(f.src)) > 60)

\* C5, amended: compile fails with ExpressionTooLong exactly when the
\* expression as given, blanks included, is longer than 60 characters.
C5_TooLongIffRawTooLong ==
    Compiled => (f.err = "ExpressionTooLongError" <=> Len(f.src) > 60)

\* An expression rejected as too long for its blanks alone.
C5_RejectedForBlanks ==
    /\ f.kind = "error" /\ f.err = "ExpressionTooLongError"
    /\ Len(f.src) > 60
    /\ Len(Tidy(f.src)) <= 60

C7_DefaultIsOneDie ==
    (/\ res.kind = "done"
     /\ Len(SrcChunks) = 1
     /\ IsPool(SrcChunks[1])
     /\ ModifierText(SrcChunks[1]) \in KeepDropNames
     /\ CountOf(SrcChunks[1]) >= 1)
    => \A g \in {parseBody(f.src \o <<"1">>, EmptyCache)} :
           \A r \in {evaluator(g.parts, res.reduce, rnd, res.at)} :
               /\ g.err = NoError
               /\ res.err = r.err
               /\ res.total = r.total
               /\ res.values = r.values

\* C9's reading of the face range of a pool chunk.
LowestFace(c) == IF FacesText(c) = <<"f">> THEN 0 - 1 ELSE 1

HighestFace(c) == IF FacesText(c) = <<"f">> THEN 1 ELSE FacesOf(c)

\* C9: reroll without an argument takes the lowest face of the pool (1 for
\* dN and d%, -1 for dF), count-twice and explode the highest (N, 100, +1);
\* an argument that is written, signed or not, is used as written.
C9_FaceArgumentResolved ==
    (/\ f.kind = "evaluator"
     /\ Len(SrcChunks) = 1
     /\ IsPool(SrcChunks[1])
     /\ ModifierText(SrcChunks[1]) # <<>>
     /\ ModifierText(SrcChunks[1])[1] \in FaceNames)
    => \A c \in {SrcChunks[1]} : \A m \in {ModifierText(SrcChunks[1])} :
           f.parts[1].arg =
               IF Len(m) > 1 THEN toSafeInteger(Sub(m, 2, Len(m)))
               ELSE IF m[1] = "r" THEN LowestFace(c) ELSE HighestFace(c)

\* A reroll on Fudge dice compiled without an argument to reroll on -1.
C9_FudgeRerollDefault ==
    /\ f.kind = "evaluator"
    /\ Tidy(f.src) = <<"2", "d", "f", "r">>
    /\ f.parts[1].func = "R"
    /\ f.parts[1].arg = 0 - 1

\* C16: reroll(arg) returns as many rolls as it was given; a roll other than
\* arg stays where it was, and the k-th roll equal to arg, from the left, is
\* replaced by the value of the k-th call of the reroll function, also when
\* that value is arg again; the reroll function is called once per match.
C16_RerollReplacesEachMatchOnce ==
    (mres.kind = "done" /\ mres.name = "R") =>
        /\ mres.err = NoError
        /\ Len(mres.out) = Len(mres.before)
        /\ mres.n = Occurrences(mres.before, mres.arg)
        /\ \A i \in 1..Len(mres.before) :
               mres.out[i] =
                   IF mres.before[i] = mres.arg
                   THEN Draw(mock, Cardinality({j \in 1..i : mres.before[j] = mres.arg}))
                   ELSE mres.before[i]

\* Two matching rolls around another one: the first die rolled is arg again
\* and is kept, the second die is different, the roll between them stays.
C16_FreshMatchKept ==
    /\ mres.kind = "done" /\ mres.name = "R"
    /\ Len(mres.before) = 3
    /\ mres.before[1] = mres.arg /\ mres.before[2] # mres.arg /\ mres.before[3] = mres.arg
    /\ mres.out[1] = mres.arg /\ mres.out[2] = mres.before[2] /\ mres.out[3] # mres.arg
    /\ mres.n = 2

\* C19: keepHighest, keepLowest, dropHighest and dropLowest leave the array
\* of the caller as it was, the same rolls in the same order.
C19_InputLeftAsItWas ==
    (mres.kind = "done" /\ mres.name \in {"KH", "KL", "DH", "DL"}) =>
        rolls = mres.before

\* keepHighest(1) of three rolls in no order: the caller's array is sorted
\* downwards after the call.
C19_InputSortedInPlace ==
    /\ mres.kind = "done" /\ mres.name = "KH" /\ mres.arg = 1
    /\ mres.before = <<1, 3, 2>>
    /\ mres.out = <<3>>
    /\ rolls = <<3, 2, 1>>

(***************************************************************************)
(* Properties of the splitter.                                             *)
(***************************************************************************)
\* The chunks joined in their order.
RECURSIVE Joined(_)
Joined(cs) == IF cs = <<>> THEN <<>> ELSE Head(cs) \o Joined(Tail(cs))

\* The index in the string at which chunk i starts.
RECURSIVE StartIndex(_, _)
StartIndex(cs, i) == IF i <= 1 THEN 1 ELSE StartIndex(cs, i - 1) + Len(cs[i - 1])

\* C17: the chunks of a non-empty tidied expression are non-empty and,
\* joined in their order, are the expression; a chunk starts at the first
\* character and at every + or - that is not the first character and does
\* not come right after r, t or !, and nowhere else.
C17_ChunksPartitionAtSigns ==
    (pieces # NoPieces /\ text # <<>>) =>
        /\ \A i \in 1..Len(pieces) : pieces[i] # <<>>
        /\ Joined(pieces) = text
        /\ {StartIndex(pieces, i) : i \in 1..Len(pieces)}
               = {1} \cup {q \in 2..Len(text) :
                              /\ text[q] \in {"+", "-"}
                              /\ text[q - 1] \notin {"r", "t", "!"}}

\* A sign right behind r stays in the chunk of the r, and the sign behind
\* that one starts the next chunk.
C17_SignAfterModifierStays ==
    /\ text = <<"r", "-", "+", "2">>
    /\ pieces = << <<"r", "-">>, <<"+", "2">> >>

(***************************************************************************)
(* Properties of explode near the limit on dice.                           *)
(***************************************************************************)
Exploded == mres.kind = "done" /\ mres.name = "!"

\* C11: whenever explode returns normally, the pool it returns (the rolls it
\* was given and the dice it added) has at most MAX_DICE elements.
C11_ReturnedPoolWithinLimit ==
    (Exploded /\ mres.err = NoError) => Len(mres.out) <= MAX_DICE

\* explode was given fewer than MAX_DICE rolls and returned more than
\* MAX_DICE.
C11_LargerPoolReturned ==
    /\ Exploded
    /\ mres.err = NoError
    /\ Len(mres.before) < MAX_DICE
    /\ Len(mres.out) > MAX_DICE

(***************************************************************************)
(* Properties of the cache of compiled expressions.                        *)
(***************************************************************************)
Cached == DOMAIN exprCache

CacheStep ==
    /\ \A k \in Cached : k \in DOMAIN exprCache' /\ exprCache'[k] = exprCache[k]
    /\ invocations' # invocations => exprCache' = exprCache
    /\ invocations' = invocations =>
           /\ f'.src \in Cached =>
                  /\ f'.kind = "evaluator" /\ ~f'.fresh
                  /\ f'.id = exprCache[f'.src].id
                  /\ f'.parts = exprCache[f'.src].parts
                  /\ exprCache' = exprCache
           /\ (f'.src \notin Cached /\ f'.kind = "evaluator") =>
                  /\ f'.fresh
                  /\ DOMAIN exprCache' = Cached \cup {f'.src}
                  /\ exprCache'[f'.src].id = f'.id
                  /\ \A k \in Cached : exprCache[k].id # f'.id
           /\ f'.kind = "error" =>
                  /\ exprCache' = exprCache
                  /\ f'.src \notin Cached
           /\ f'.err = parseBody(f'.src, EmptyCache).err

\* C18: the cache of expressions holds an entry for a string exactly when a
\* compile of that string has succeeded; an entry is never removed or
\* replaced, so a later compile of the string returns the same evaluator; a
\* failed compile stores nothing, and a compile of that string fails again
\* with the same error.
C18_CacheOnlyGrows == [][CacheStep]_vars

\* The first evaluator compiled was handed out again from the cache after a
\* second one was compiled and called.
C18_FirstEvaluatorReturnedAgain ==
    /\ f.kind = "evaluator" /\ ~f.fresh
    /\ f.id = 1 /\ allocs = 2
    /\ invocations > 0
    /\ exprCache[f.src].id = 1

(***************************************************************************)
(* Properties of the calls of the random source.                           *)
(***************************************************************************)
\* The base dice of a pool whose first draw is call s + 1 of random.die.
BaseDice(part, s) == [j \in 1..part.num |-> Draw(rnd, s + j) + part.offset]

\* The rolls of a pool's entry before the sign was applied.
BeforeSign(part, entry) == IF part.negative THEN Negated(entry.a) ELSE entry.a

\* The number of calls of random.die behind the entry a chunk returned: none
\* for a constant; for a pool its base dice, and one call per die that reroll
\* replaced or explode added.
ChunkDraws(part, s, entry) ==
    IF ~part.isRoll THEN 0
    ELSE CASE part.func = "R" ->
                part.num + Occurrences(BaseDice(part, s), part.arg)
           [] part.func = "!" -> Len(entry.a)
           [] OTHER -> part.num

\* The number of calls of random.die made when chunk i starts.
RECURSIVE StartOf(_, _, _, _)
StartOf(parts, values, i, at) ==
    IF i <= 1 THEN at
    ELSE Bind(StartOf(parts, values, i - 1, at), LAMBDA s :
           s + ChunkDraws(parts[i - 1], s, values[i - 1]))

\* The entry of a pool is made of the draws from s + 1 on: the base dice come
\* first; the dice reroll puts in are the draws behind them, in the order of
\* the rolls they replace; the dice explode adds are the draws behind the
\* base dice; every other modifier returns base dice only.
PoolInOrder(part, s, entry) ==
    \A base \in {BaseDice(part, s)} : \A out \in {BeforeSign(part, entry)} :
        CASE part.func = "ID" -> out = base
          [] part.func = "R" ->
                /\ Len(out) = part.num
                /\ \A j \in 1..part.num :
                       out[j] = IF base[j] = part.arg
                                THEN Draw(rnd, s + part.num + CountEq(base, part.arg, j))
                                         + part.offset
                                ELSE base[j]
          [] part.func = "!" ->
                \A orig \in {Originals(out, part.arg)} :
                    /\ Cardinality(orig) = part.num
                    /\ \A p \in orig : out[p] = base[Cardinality({q \in orig : q <= p})]
                    /\ \A v \in Values(out) :
                           Cardinality({p \in (1..Len(out)) \ orig : out[p] = v})
                               = Cardinality({k \in (part.num + 1)..Len(out) :
                                                 Draw(rnd, s + k) + part.offset = v})
          [] OTHER -> \A j \in 1..Len(out) : out[j] \in Values(base)

\* An evaluator of pools without modifiers and constants, and its dice.
Unmodified(parts) == \A i \in 1..Len(parts) : parts[i].isRoll => parts[i].func = "ID"

RECURSIVE DiceOf(_, _)
DiceOf(parts, i) ==
    IF i = 0 THEN 0
    ELSE DiceOf(parts, i - 1) + (IF parts[i].isRoll THEN parts[i].num ELSE 0)

\* One step: a compile leaves the count of draws alone; a call of the
\* evaluator starts behind every draw made so far, draws once per entry of
\* sides, exactly the dice of the expression when no pool has a modifier, and
\* returns in every pool the draws of that call in their order.
DrawStep ==
    /\ invocations' = invocations => calls' = calls
    /\ invocations' # invocations =>
           /\ res'.at = calls
           /\ calls' = calls + Len(res'.sides)
           /\ Unmodified(f.parts) => calls' = calls + DiceOf(f.parts, Len(f.parts))
           /\ (res'.err = NoError /\ ~res'.reduce) =>
                  /\ \A i \in 1..Len(f.parts) :
                         f.parts[i].isRoll =>
                             PoolInOrder(f.parts[i],
                                         StartOf(f.parts, res'.values, i, calls),
                                         res'.values[i])
                  /\ calls' = StartOf(f.parts, res'.values, Len(f.parts) + 1, calls)

C14_RaisedOnlyWithTargetPending ==
    Exploded =>
        /\ mres.err = "RollLimitExceededError" => mres.pending
        /\ (Len(mres.before) <= MAX_DICE /\ mres.arg \notin Values(mres.before)) =>
               /\ mres.err = NoError
               /\ mres.out = mres.before
               /\ mres.n = 0

\* A pool of MAX_DICE rolls without the target: explode raised, with no call
\* of the reroll function made.
C14_RaisedWithoutTarget ==
    /\ Exploded
    /\ Len(mres.before) = MAX_DICE
    /\ mres.arg \notin Values(mres.before)
    /\ mres.n = 0
    /\ mres.err = "RollLimitExceededError"

\* C15: on a pool of at most MAX_DICE rolls explode comes to an end under
\* every reroll function: its loop is left after at most MAX_DICE - size
\* passes, and then it returns or raises RollLimitExceeded; a pool that holds
\* the target, with every die rolled equal to the target, makes it raise.
C15_ExplodeTerminates ==
    (Exploded /\ Len(mres.before) <= MAX_DICE) =>
        /\ mres.left
        /\ mres.passes <= MAX_DICE - Len(mres.before)
        /\ mres.err \in {NoError, "RollLimitExceededError"}
        /\ (/\ mres.arg \in Values(mres.before)
            /\ \A k \in 1..mres.n : Draw(mock, k) = mres.arg)
               => mres.err = "RollLimitExceededError"

\* A short pool with the target under a reroll function that hands out the
\* target every time: the loop ran all its MAX_DICE - size passes, one die
\* per pass, and explode raised.
C15_ChainRunsOutOfPasses ==
    /\ Exploded
    /\ Len(mres.before) = MaxPool
    /\ Occurrences(mres.before, mres.arg) = 1
    /\ mres.left
    /\ mres.passes = MAX_DICE - MaxPool
    /\ mres.n = mres.passes
    /\ mres.err = "RollLimitExceededError"

====
